---- MODULE Spec2Model ----
(***************************************************************************)
(* A model of the proven-transaction builder, the ProvenTransaction wire   *)
(* format and the transaction-id derivation of the miden objects crate, of *)
(* its NoteAssets container, and of the note constructors of miden-lib.    *)
(*                                                                         *)
(* Representation.                                                         *)
(*  - Option<T>: the empty tuple << >> is None, the 1-tuple <<x>> Some(x). *)
(*  - Digest: a natural number, 0 being Digest::default() (all zeros).     *)
(*  - Vec<Nullifier> / Vec<NoteEnvelope>: a sequence of runs. A run stands *)
(*    for n consecutive entries (ids first, first+1, ..., first+n-1), so   *)
(*    that vectors as long as the per-transaction caps stay small values.  *)
(*    A single entry is a run with n = 1.                                  *)
(*  - BTreeMap<NoteId, Note>: a function whose domain is the key set.      *)
(*  - the hash function is modelled as injective: a digest produced by    *)
(*    hashing is the tagged preimage.                                      *)
(*  - Asset: a record of kind, faucet id and value; a Vec<Asset> is a       *)
(*    sequence of such records, up to two past the limit of 255 entries.   *)
(*  - the randomness source: the number of words drawn from it so far.     *)
(***************************************************************************)
EXTENDS Integers, Sequences, FiniteSets, TLC

VARIABLES
    debug_assertions,   \* build profile: are debug_assert!s compiled in
    pc,                 \* "start" | "building" | "built" | "encoded" | "received" | "decoded" | "panicked"
    builder,            \* the ProvenTransactionBuilder (<< >> before new()); kept as consumed by build()
    calls,              \* number of accumulating calls made on the builder
    result,             \* what build() returned
    wire,               \* serialized ProvenTransaction bytes (<< >> when none)
    decoded,            \* what ProvenTransaction::read_from returned
    executed,           \* the ExecutedTransaction a prover run started from (<< >> when none)
    id_args,            \* argument tuples handed to TransactionId::new
    id_out,             \* the ids it returned for them
    na_input,           \* the asset slice handed to NoteAssets::new
    na,                 \* the NoteAssets it returned (or its error)
    na_other,           \* a second NoteAssets: a clone, or one built from a reordered slice
    na_ret,             \* the calls made on the container and what they returned
    na_wire,            \* serialized NoteAssets bytes, as an Option
    na_decoded,         \* what NoteAssets::read_from returned
    rng,                \* the caller's randomness source: the number of words drawn so far
    note_args,          \* the arguments of a note constructor call
    note_out,           \* what the note constructor returned
    rd,                 \* the threads reading one shared NoteAssets: where each is in commitment()
    cell_writers,       \* the threads in the middle of writing the container's cell
    cell_writes         \* how many times the cell has been written

asset_vars == <<na_input, na, na_other, na_ret, na_wire, na_decoded>>
note_vars == <<rng, note_args, note_out>>
reader_vars == <<rd, cell_writers, cell_writes>>
tx_vars == <<pc, builder, calls, result, wire, decoded, executed, id_args, id_out>>

vars == <<debug_assertions, tx_vars, asset_vars, note_vars, reader_vars>>

\* ------------------------------------------------------------------------
\* Bounds and program constants
\* ------------------------------------------------------------------------

\* most accumulating calls made on one builder
MaxCalls == 4

\* src/objects/src/lib.rs
MAX_INPUT_NOTES_PER_TX == 1023
MAX_OUTPUT_NOTES_PER_TX == 4096

None == << >>
Some(x) == <<x>>
is_some(o) == o # << >>
is_none(o) == o = << >>
unwrap(o) == o[1]

\* Digest::default()
DigestDefault == 0
Digests == {0, 1, 2}
unwrap_or_default(o) == IF is_some(o) THEN unwrap(o) ELSE DigestDefault

\* account ids; the storage-mode bit decides is_on_chain
AccountIds == {1, 2}
is_on_chain(id) == id % 2 = 0

\* Account snapshots and deltas carried by AccountDetails
\* hashes of account states: outputs of the hash function, never all zeros
AccountHashes == Digests \ {DigestDefault}
Accounts == [id : AccountIds, hash : AccountHashes]
AccountDeltas == {1}
Full(a) == [variant |-> "Full", account |-> <<a>>, delta |-> << >>]
Delta(d) == [variant |-> "Delta", account |-> << >>, delta |-> <<d>>]
AccountDetailsValues == {Full(a) : a \in Accounts} \cup {Delta(d) : d \in AccountDeltas}

\* note ids, full notes
NoteIds == {1, 2}
Notes == {1, 2}

\* runs of nullifiers and of note envelopes
NullifierRun(first, n) == [first |-> first, n |-> n]
EnvelopeRun(note_id, metadata, n) == [note_id |-> note_id, metadata |-> metadata, n |-> n]

\* the iterators handed to add_input_notes / add_output_notes
InputIters ==
    {NullifierRun(1, 1), NullifierRun(2, 1), NullifierRun(100, MAX_INPUT_NOTES_PER_TX)}
OutputIters ==
    {EnvelopeRun(1, 0, 1), EnvelopeRun(2, 0, 1), EnvelopeRun(1, 1, 1),
     EnvelopeRun(100, 0, MAX_OUTPUT_NOTES_PER_TX)}

\* ------------------------------------------------------------------------
\* Note collections (InputNotes::new / OutputNotes::new)
\* ------------------------------------------------------------------------

RECURSIVE num_notes(_)
num_notes(runs) == IF runs = << >> THEN 0 ELSE Head(runs).n + num_notes(Tail(runs))

\* two runs of nullifiers share an entry
NullifierRunsOverlap(a, b) == a.first < b.first + b.n /\ b.first < a.first + a.n
has_duplicate_nullifier(runs) ==
    \E i, j \in 1..Len(runs) : i < j /\ NullifierRunsOverlap(runs[i], runs[j])

\* two runs of envelopes share a note id
EnvelopeRunsOverlap(a, b) == a.note_id < b.note_id + b.n /\ b.note_id < a.note_id + a.n
has_duplicate_note_id(runs) ==
    \E i, j \in 1..Len(runs) : i < j /\ EnvelopeRunsOverlap(runs[i], runs[j])

CollOk(notes) == [ok |-> TRUE, notes |-> notes, err |-> "none"]
CollErr(e) == [ok |-> FALSE, notes |-> << >>, err |-> e]

InputNotesNew(notes) ==
    IF num_notes(notes) > MAX_INPUT_NOTES_PER_TX THEN CollErr("TooManyInputNotes")
    ELSE IF has_duplicate_nullifier(notes) THEN CollErr("DuplicateInputNote")
    ELSE CollOk(notes)

OutputNotesNew(notes) ==
    IF num_notes(notes) > MAX_OUTPUT_NOTES_PER_TX THEN CollErr("TooManyOutputNotes")
    ELSE IF has_duplicate_note_id(notes) THEN CollErr("DuplicateOutputNote")
    ELSE CollOk(notes)

\* Hasher::hash_elements, injective
hash_elements(elements) == <<"rpo", elements>>

\* the sequential-hash commitment of a note collection
commitment(notes) == hash_elements(notes)

\* ------------------------------------------------------------------------
\* TransactionId
\* ------------------------------------------------------------------------

\* debug_assert_ne!(init_account_hash, Some(Digest::default()))
InitHashAssertion(init_account_hash) == init_account_hash # Some(DigestDefault)

\* mutant: the second word repeats the initial hash, the final hash is left out
TransactionIdNew_final_dropped(init_account_hash, final_account_hash, input_notes_hash, output_notes_hash) ==
    hash_elements(<<unwrap_or_default(init_account_hash), unwrap_or_default(init_account_hash),
                    input_notes_hash, output_notes_hash>>)

TransactionIdNew(init_account_hash, final_account_hash, input_notes_hash, output_notes_hash) ==
    hash_elements(<<unwrap_or_default(init_account_hash), final_account_hash,
                    input_notes_hash, output_notes_hash>>)

\* ------------------------------------------------------------------------
\* ProvenTransactionBuilder
\* ------------------------------------------------------------------------

\* ProvenTransactionBuilder::new
BuilderNew(account_id, initial_account_hash, final_account_hash, block_ref, proof) ==
    [account_id |-> account_id,
     initial_account_hash |-> initial_account_hash,
     final_account_hash |-> final_account_hash,
     account_details |-> None,
     input_notes |-> << >>,
     output_notes |-> << >>,
     output_note_details |-> << >>,
     tx_script_root |-> None,
     block_ref |-> block_ref,
     proof |-> proof]

\* BTreeMap::insert
MapInsert(m, k, v) == [x \in (DOMAIN m) \cup {k} |-> IF x = k THEN v ELSE m[x]]

\* the accumulating methods: each returns the builder it was given, one field changed
with_account_details(b, account_details) == [b EXCEPT !.account_details = Some(account_details)]
\* mutant: the notes given replace the ones added before
with_input_notes_replacing(b, notes) == [b EXCEPT !.input_notes = notes]
with_input_notes(b, notes) == [b EXCEPT !.input_notes = @ \o notes]
with_output_notes(b, notes) == [b EXCEPT !.output_notes = @ \o notes]
with_output_note_details(b, note_id, note) ==
    [b EXCEPT !.output_note_details = MapInsert(@, note_id, note)]
with_tx_script_root(b, tx_script_root) == [b EXCEPT !.tx_script_root = Some(tx_script_root)]

\* the keys of a BTreeMap in iteration (ascending) order
RECURSIVE keys_in_order(_)
keys_in_order(S) ==
    IF S = {} THEN << >>
    ELSE LET k == CHOOSE x \in S : \A y \in S : x <= y
         IN <<k>> \o keys_in_order(S \ {k})

\* known_output_ids.contains(k)
known_output_ids_contains(output_notes, k) ==
    \E i \in 1..Len(output_notes) :
        output_notes[i].note_id <= k /\ k < output_notes[i].note_id + output_notes[i].n

\* mutant: only the first unknown key is reported
unknown_ids_first_only(b) ==
    LET all == keys_in_order({k \in DOMAIN b.output_note_details :
                                 ~known_output_ids_contains(b.output_notes, k)})
    IN  IF all = << >> THEN << >> ELSE <<Head(all)>>

\* output_note_details.keys().filter(|k| !known_output_ids.contains(k)).collect()
unknown_ids(b) ==
    keys_in_order({k \in DOMAIN b.output_note_details :
                      ~known_output_ids_contains(b.output_notes, k)})

Ok(tx) == [tag |-> "Ok", tx |-> <<tx>>, kind |-> "none", args |-> << >>]
Err(kind, args) == [tag |-> "Err", tx |-> << >>, kind |-> kind, args |-> args]
Panic == [tag |-> "Panic", tx |-> << >>, kind |-> "none", args |-> << >>]
NoResult == [tag |-> "None", tx |-> << >>, kind |-> "none", args |-> << >>]

\* mutant: the snapshot's hash is compared before its id
OnChainDetailsError_hash_first(b, details) ==
    LET is_new_account == is_none(b.initial_account_hash)
    IN  IF is_new_account /\ details.variant = "Delta"
            THEN <<Err("NewOnChainAccountRequiresFullDetails", <<b.account_id>>)>>
        ELSE IF is_new_account /\ details.variant = "Full"
            THEN LET account == unwrap(details.account)
                 IN  IF account.hash # b.final_account_hash
                         THEN <<Err("AccountFinalHashMismatch",
                                    <<b.final_account_hash, account.hash>>)>>
                     ELSE IF account.id # b.account_id
                         THEN <<Err("AccountIdMismatch", <<b.account_id, account.id>>)>>
                     ELSE << >>
        ELSE IF details.variant = "Full"
            THEN <<Err("ExistingOnChainAccountRequiresDeltaDetails", <<b.account_id>>)>>
        ELSE << >>

\* the match on (is_new_account, details) of build(): << >> when the details are accepted
OnChainDetailsError(b, details) ==
    LET is_new_account == is_none(b.initial_account_hash)
    IN  IF is_new_account /\ details.variant = "Delta"
            THEN <<Err("NewOnChainAccountRequiresFullDetails", <<b.account_id>>)>>
        ELSE IF is_new_account /\ details.variant = "Full"
            THEN LET account == unwrap(details.account)
                 IN  IF account.id # b.account_id
                         THEN <<Err("AccountIdMismatch", <<b.account_id, account.id>>)>>
                     ELSE IF account.hash # b.final_account_hash
                         THEN <<Err("AccountFinalHashMismatch",
                                    <<b.final_account_hash, account.hash>>)>>
                     ELSE << >>
        ELSE IF details.variant = "Full"
            THEN <<Err("ExistingOnChainAccountRequiresDeltaDetails", <<b.account_id>>)>>
        ELSE << >>

\* mutant: an off-chain account is rejected only for a full snapshot
AccountDetailsError_delta_allowed(b) ==
    IF ~is_on_chain(b.account_id) /\ is_some(b.account_details)
          /\ unwrap(b.account_details).variant = "Full"
        THEN <<Err("OffChainAccountWithDetails", <<b.account_id>>)>>
    ELSE IF is_on_chain(b.account_id)
        THEN IF is_none(b.account_details)
                 THEN <<Err("OnChainAccountMissingDetails", <<b.account_id>>)>>
             ELSE OnChainDetailsError(b, unwrap(b.account_details))
    ELSE << >>

\* mutant: details are required of new on-chain accounts only
AccountDetailsError_existing_exempt(b) ==
    IF ~is_on_chain(b.account_id) /\ is_some(b.account_details)
        THEN <<Err("OffChainAccountWithDetails", <<b.account_id>>)>>
    ELSE IF is_on_chain(b.account_id)
        THEN IF is_none(b.account_details)
                 THEN IF is_none(b.initial_account_hash)
                          THEN <<Err("OnChainAccountMissingDetails", <<b.account_id>>)>>
                      ELSE << >>
             ELSE OnChainDetailsError(b, unwrap(b.account_details))
    ELSE << >>

\* the account-disclosure rules of build(): << >> when they pass
AccountDetailsError(b) ==
    IF ~is_on_chain(b.account_id) /\ is_some(b.account_details)
        THEN <<Err("OffChainAccountWithDetails", <<b.account_id>>)>>
    ELSE IF is_on_chain(b.account_id)
        THEN IF is_none(b.account_details)
                 THEN <<Err("OnChainAccountMissingDetails", <<b.account_id>>)>>
             ELSE OnChainDetailsError(b, unwrap(b.account_details))
    ELSE << >>

\* mutant: the id is computed before the notes are known, from empty collections
AssembleTx_id_without_notes(b, input_notes, output_notes) ==
    [id |-> TransactionIdNew(b.initial_account_hash, b.final_account_hash,
                             commitment(<< >>), commitment(<< >>)),
     account_id |-> b.account_id,
     initial_account_hash |-> b.initial_account_hash,
     final_account_hash |-> b.final_account_hash,
     account_details |-> b.account_details,
     input_notes |-> input_notes,
     output_notes |-> output_notes,
     output_note_details |-> b.output_note_details,
     tx_script_root |-> b.tx_script_root,
     block_ref |-> b.block_ref,
     proof |-> b.proof]

\* the ProvenTransaction assembled at the end of build()
AssembleTx(b, input_notes, output_notes) ==
    [id |-> TransactionIdNew(b.initial_account_hash, b.final_account_hash,
                             commitment(input_notes), commitment(output_notes)),
     account_id |-> b.account_id,
     initial_account_hash |-> b.initial_account_hash,
     final_account_hash |-> b.final_account_hash,
     account_details |-> b.account_details,
     input_notes |-> input_notes,
     output_notes |-> output_notes,
     output_note_details |-> b.output_note_details,
     tx_script_root |-> b.tx_script_root,
     block_ref |-> b.block_ref,
     proof |-> b.proof]

\* mutant: the note collections are built before the disclosed-note keys are looked up
build_collections_first(b, debug) ==
    LET unknown == unknown_ids(b)
        input_notes == InputNotesNew(b.input_notes)
        output_notes == OutputNotesNew(b.output_notes)
        account_error == AccountDetailsError(b)
    IN  IF ~input_notes.ok THEN Err("InputNotesError", <<input_notes.err>>)
        ELSE IF ~output_notes.ok THEN Err("OutputNotesError", <<output_notes.err>>)
        ELSE IF unknown # << >> THEN Err("NoteDetailsForUnknownNotes", <<unknown>>)
        ELSE IF account_error # << >> THEN account_error[1]
        ELSE IF debug /\ ~InitHashAssertion(b.initial_account_hash) THEN Panic
        ELSE Ok(AssembleTx(b, input_notes.notes, output_notes.notes))

\* mutant: the envelopes are taken as accumulated, OutputNotes::new's error dropped
build_outputs_unchecked(b, debug) ==
    LET unknown == unknown_ids(b)
        input_notes == InputNotesNew(b.input_notes)
        account_error == AccountDetailsError(b)
    IN  IF unknown # << >> THEN Err("NoteDetailsForUnknownNotes", <<unknown>>)
        ELSE IF ~input_notes.ok THEN Err("InputNotesError", <<input_notes.err>>)
        ELSE IF account_error # << >> THEN account_error[1]
        ELSE IF debug /\ ~InitHashAssertion(b.initial_account_hash) THEN Panic
        ELSE Ok(AssembleTx(b, input_notes.notes, b.output_notes))

\* ProvenTransactionBuilder::build
build(b, debug) ==
    LET unknown == unknown_ids(b)
        input_notes == InputNotesNew(b.input_notes)
        output_notes == OutputNotesNew(b.output_notes)
        account_error == AccountDetailsError(b)
    IN  IF unknown # << >> THEN Err("NoteDetailsForUnknownNotes", <<unknown>>)
        ELSE IF ~input_notes.ok THEN Err("InputNotesError", <<input_notes.err>>)
        ELSE IF ~output_notes.ok THEN Err("OutputNotesError", <<output_notes.err>>)
        ELSE IF account_error # << >> THEN account_error[1]
        ELSE IF debug /\ ~InitHashAssertion(b.initial_account_hash) THEN Panic
        ELSE Ok(AssembleTx(b, input_notes.notes, output_notes.notes))

\* ------------------------------------------------------------------------
\* The builder's life: new, accumulate, build
\* ------------------------------------------------------------------------

BlockRefs == {1}
Proofs == {1}
ScriptRoots == {1}

\* ProvenTransactionBuilder::new(..); its debug_assert_ne! aborts a debug build
New ==
    /\ pc = "start"
    /\ \E account_id \in AccountIds, final_account_hash \in AccountHashes,
          initial_account_hash \in {None} \cup {Some(d) : d \in Digests},
          block_ref \in BlockRefs, proof \in Proofs :
         IF debug_assertions /\ ~InitHashAssertion(initial_account_hash)
         THEN /\ pc' = "panicked"
              /\ UNCHANGED builder
         ELSE /\ pc' = "building"
              /\ builder' = BuilderNew(account_id, initial_account_hash,
                                       final_account_hash, block_ref, proof)
    /\ UNCHANGED <<debug_assertions, calls, result, wire, decoded, executed, id_args, id_out, asset_vars, note_vars, reader_vars>>

CanAccumulate == pc = "building" /\ calls < MaxCalls
AccumulateFrame == UNCHANGED <<debug_assertions, pc, result, wire, decoded, executed, id_args, id_out, asset_vars, note_vars, reader_vars>>

account_details ==
    /\ CanAccumulate
    /\ \E d \in AccountDetailsValues : builder' = with_account_details(builder, d)
    /\ calls' = calls + 1
    /\ AccumulateFrame

add_input_notes ==
    /\ CanAccumulate
    /\ \E run \in InputIters : builder' = with_input_notes(builder, <<run>>)
    /\ calls' = calls + 1
    /\ AccumulateFrame

add_output_notes ==
    /\ CanAccumulate
    /\ \E run \in OutputIters : builder' = with_output_notes(builder, <<run>>)
    /\ calls' = calls + 1
    /\ AccumulateFrame

add_output_note_details ==
    /\ CanAccumulate
    /\ \E k \in NoteIds, note \in Notes : builder' = with_output_note_details(builder, k, note)
    /\ calls' = calls + 1
    /\ AccumulateFrame

tx_script_root ==
    /\ CanAccumulate
    /\ \E root \in ScriptRoots : builder' = with_tx_script_root(builder, root)
    /\ calls' = calls + 1
    /\ AccumulateFrame

\* build(self): the builder is consumed; its accumulated value stays on record
Build ==
    /\ pc = "building"
    /\ result' = build(builder, debug_assertions)
    /\ pc' = IF result'.tag = "Panic" THEN "panicked" ELSE "built"
    /\ UNCHANGED <<debug_assertions, builder, calls, wire, decoded, executed, id_args, id_out, asset_vars, note_vars, reader_vars>>

\* ------------------------------------------------------------------------
\* Serialization of ProvenTransaction
\* ------------------------------------------------------------------------

\* mutant: an absent value is written as a present default
write_option_always_present(o) == <<1, unwrap_or_default(o)>>

\* Option<T>: a presence byte, then the value
write_option(o) == IF is_some(o) THEN <<1, unwrap(o)>> ELSE <<0>>

\* impl Serializable for AccountDetails: a discriminant byte, then the payload
write_account_details(d) ==
    IF d.variant = "Full" THEN <<0, unwrap(d.account)>> ELSE <<1, unwrap(d.delta)>>

write_option_account_details(o) ==
    IF is_some(o) THEN <<1>> \o write_account_details(unwrap(o)) ELSE <<0>>

\* target.write_many(self.output_note_details.iter()): the pairs in key order
RECURSIVE write_pairs(_, _)
write_pairs(m, keys) ==
    IF keys = << >> THEN << >>
    ELSE <<<<Head(keys), m[Head(keys)]>>>> \o write_pairs(m, Tail(keys))

\* impl Serializable for ProvenTransaction: the fields in write order
write_into(tx) ==
    <<tx.account_id,
      write_option(tx.initial_account_hash),
      tx.final_account_hash,
      write_option_account_details(tx.account_details),
      tx.input_notes,
      tx.output_notes,
      <<Cardinality(DOMAIN tx.output_note_details),
        write_pairs(tx.output_note_details, keys_in_order(DOMAIN tx.output_note_details))>>,
      write_option(tx.tx_script_root),
      tx.block_ref,
      tx.proof>>

read_option(w) == IF w[1] = 1 THEN Some(w[2]) ELSE None

\* impl Deserializable for AccountDetails; << >> for an unknown variant
read_account_details(w) ==
    IF w[1] = 0 THEN <<Full(w[2])>>
    ELSE IF w[1] = 1 THEN <<Delta(w[2])>>
    ELSE << >>

\* BTreeMap::from_iter(details): a later pair replaces an earlier one with its key
RECURSIVE map_from_iter(_, _)
map_from_iter(m, pairs) ==
    IF pairs = << >> THEN m
    ELSE map_from_iter(MapInsert(m, Head(pairs)[1], Head(pairs)[2]), Tail(pairs))

\* impl Deserializable for ProvenTransaction
read_from(w, debug) ==
    LET account_id == w[1]
        initial_account_hash == read_option(w[2])
        final_account_hash == w[3]
        has_details == w[4][1] = 1
        details == IF has_details THEN read_account_details(Tail(w[4])) ELSE << >>
        input_notes == InputNotesNew(w[5])
        output_notes == OutputNotesNew(w[6])
        output_note_details == map_from_iter(<< >>, w[7][2])
    IN  IF has_details /\ details = << >>
            THEN Err("DeserializationError", <<"Unknown variant for AccountDetails">>)
        ELSE IF ~input_notes.ok THEN Err("DeserializationError", <<input_notes.err>>)
        ELSE IF ~output_notes.ok THEN Err("DeserializationError", <<output_notes.err>>)
        ELSE IF w[7][1] # Len(w[7][2]) THEN Err("DeserializationError", <<"UnexpectedEOF">>)
        ELSE IF debug /\ ~InitHashAssertion(initial_account_hash) THEN Panic
        ELSE Ok([id |-> TransactionIdNew(initial_account_hash, final_account_hash,
                                         commitment(input_notes.notes),
                                         commitment(output_notes.notes)),
                 account_id |-> account_id,
                 initial_account_hash |-> initial_account_hash,
                 final_account_hash |-> final_account_hash,
                 account_details |-> details,
                 input_notes |-> input_notes.notes,
                 output_notes |-> output_notes.notes,
                 output_note_details |-> output_note_details,
                 tx_script_root |-> read_option(w[8]),
                 block_ref |-> w[9],
                 proof |-> w[10]])

\* bytes that reach the decoder from the network, well-formed or not
ReceivedBytes ==
    {<<account_id, init, 1, details, inputs, outputs, <<Len(pairs), pairs>>, <<0>>, 1, 1>> :
        account_id \in AccountIds,
        init \in {<<0>>, <<1, 0>>, <<1, 1>>},
        details \in {<<0>>, <<1, 0, [id |-> 2, hash |-> 1]>>, <<1, 0, [id |-> 1, hash |-> 2]>>,
                     <<1, 1, 1>>, <<1, 2, 1>>},
        inputs \in {<< >>, <<NullifierRun(1, 1)>>, <<NullifierRun(1, 1), NullifierRun(1, 1)>>},
        outputs \in {<< >>, <<EnvelopeRun(1, 0, 1)>>},
        pairs \in {<< >>, <<<<1, 1>>>>, <<<<2, 1>>>>, <<<<1, 1>>, <<1, 2>>>>}}

\* tx.to_bytes() on a transaction build() returned
Encode ==
    /\ pc = "built"
    /\ result.tag = "Ok"
    /\ wire' = write_into(unwrap(result.tx))
    /\ pc' = "encoded"
    /\ UNCHANGED <<debug_assertions, builder, calls, result, decoded, executed, id_args, id_out, asset_vars, note_vars, reader_vars>>

\* bytes arrive from a peer
Receive ==
    /\ pc = "start"
    /\ wire' \in ReceivedBytes
    /\ pc' = "received"
    /\ UNCHANGED <<debug_assertions, builder, calls, result, decoded, executed, id_args, id_out, asset_vars, note_vars, reader_vars>>

\* ProvenTransaction::read_from_bytes
Decode ==
    /\ pc \in {"encoded", "received"}
    /\ decoded' = read_from(wire, debug_assertions)
    /\ pc' = IF decoded'.tag = "Panic" THEN "panicked" ELSE "decoded"
    /\ UNCHANGED <<debug_assertions, builder, calls, result, wire, executed, id_args, id_out, asset_vars, note_vars, reader_vars>>

\* ------------------------------------------------------------------------
\* Transaction ids of executed and proven transactions
\* ------------------------------------------------------------------------

\* impl From<&ProvenTransaction> for TransactionId
FromProvenTransaction(tx) ==
    TransactionIdNew(tx.initial_account_hash, tx.final_account_hash,
                     commitment(tx.input_notes), commitment(tx.output_notes))

\* mutant: the initial hash is kept for new accounts and dropped for existing ones
FromExecutedTransaction_not_dropped(tx) ==
    LET input_notes_hash == commitment(tx.input_notes)
        output_notes_hash == commitment(tx.output_notes)
        initial_account_hash ==
            IF tx.initial_account.is_new THEN Some(tx.initial_account.hash) ELSE None
    IN  TransactionIdNew(initial_account_hash, tx.final_account.hash,
                         input_notes_hash, output_notes_hash)

\* impl From<&ExecutedTransaction> for TransactionId
FromExecutedTransaction(tx) ==
    LET input_notes_hash == commitment(tx.input_notes)
        output_notes_hash == commitment(tx.output_notes)
        initial_account_hash ==
            IF ~tx.initial_account.is_new THEN Some(tx.initial_account.hash) ELSE None
    IN  TransactionIdNew(initial_account_hash, tx.final_account.hash,
                         input_notes_hash, output_notes_hash)

\* the executed transactions handed to the prover
ExecutedTransactions ==
    [initial_account : [id : AccountIds, is_new : BOOLEAN, hash : AccountHashes],
     final_account : [hash : AccountHashes],
     input_notes : {<< >>, <<NullifierRun(1, 1)>>, <<NullifierRun(2, 1), NullifierRun(1, 1)>>},
     output_notes : {<< >>, <<EnvelopeRun(1, 0, 1)>>}]

\* TransactionProver::prove_transaction: the builder the prover fills from an executed
\* transaction
ProverBuilder(etx, block_ref, proof) ==
    LET account_id == etx.initial_account.id
        initial_account_hash ==
            IF etx.initial_account.is_new THEN None ELSE Some(etx.initial_account.hash)
        b0 == BuilderNew(account_id, initial_account_hash, etx.final_account.hash,
                         block_ref, proof)
        b1 == with_output_notes(with_input_notes(b0, etx.input_notes), etx.output_notes)
    IN  IF ~is_on_chain(account_id) THEN b1
        ELSE IF etx.initial_account.is_new
            THEN with_account_details(b1, Full([id |-> account_id,
                                                hash |-> etx.final_account.hash]))
        ELSE with_account_details(b1, Delta(1))

ProveTransaction ==
    /\ pc = "start"
    /\ \E etx \in ExecutedTransactions, block_ref \in BlockRefs, proof \in Proofs :
         /\ executed' = <<etx>>
         /\ builder' = ProverBuilder(etx, block_ref, proof)
         /\ result' = build(builder', debug_assertions)
    /\ pc' = "built"
    /\ UNCHANGED <<debug_assertions, calls, wire, decoded, id_args, id_out, asset_vars, note_vars, reader_vars>>

\* ------------------------------------------------------------------------
\* TransactionId::new on its own
\* ------------------------------------------------------------------------

OptionDigests == {None} \cup {Some(d) : d \in Digests}
IdArgs == OptionDigests \X Digests \X Digests \X Digests

\* one call of TransactionId::new: None when the debug assertion aborts it
TransactionIdCall(a, debug) ==
    IF debug /\ ~InitHashAssertion(a[1]) THEN None
    ELSE Some(TransactionIdNew(a[1], a[2], a[3], a[4]))

ComputeIds ==
    /\ id_args # << >>
    /\ id_out = << >>
    /\ id_out' = <<TransactionIdCall(id_args[1], debug_assertions),
                   TransactionIdCall(id_args[2], debug_assertions)>>
    /\ UNCHANGED <<debug_assertions, pc, builder, calls, result, wire, decoded, executed, id_args, asset_vars, note_vars, reader_vars>>

\* ------------------------------------------------------------------------
\* NoteAssets
\* ------------------------------------------------------------------------

\* NoteAssets::MAX_NUM_ASSETS (src/objects/src/notes/assets.rs)
MAX_NUM_ASSETS == 255
\* MAX_ASSETS_PER_NOTE (src/objects/src/lib.rs); NoteAssets::new does not use it
MAX_ASSETS_PER_NOTE == 256
WORD_SIZE == 4
ZERO == 0

\* longest asset slice enumerated entry by entry
MaxShortLen == 3

\* Asset::Fungible(faucet, amount) and Asset::NonFungible(faucet, value)
Fungible(faucet_id, amount) == [kind |-> "Fungible", faucet_id |-> faucet_id, value |-> amount]
NonFungible(faucet_id, value) == [kind |-> "NonFungible", faucet_id |-> faucet_id, value |-> value]

\* Asset::is_same: the same faucet for fungible assets, the same value for non-fungible ones
is_same(a, b) ==
    IF a.kind = "Fungible" /\ b.kind = "Fungible" THEN a.faucet_id = b.faucet_id
    ELSE IF a.kind = "NonFungible" /\ b.kind = "NonFungible" THEN a = b
    ELSE FALSE

\* <[Felt; 4]>::from(asset) / Word::from(asset): the asset as four field elements
asset_word(a) ==
    IF a.kind = "Fungible" THEN <<a.value, ZERO, ZERO, a.faucet_id>>
    ELSE <<a.value, a.faucet_id, a.value, a.value>>

\* the assets small slices are made of; two are of one fungible faucet
SmallAssets == {Fungible(1, 10), Fungible(1, 20), Fungible(2, 10), NonFungible(3, 7)}

\* n assets of n different faucets
DistinctAssets(n) == [i \in 1..n |-> Fungible(100 + i, 1)]
\* the same with entry `at` replaced by an asset of the faucet of entry `of`
WithDuplicate(n, at, of) == [i \in 1..n |-> IF i = at THEN Fungible(100 + of, 2) ELSE Fungible(100 + i, 1)]

\* slices around the size limit
LongSlices ==
    {DistinctAssets(n) : n \in {MAX_NUM_ASSETS - 1, MAX_NUM_ASSETS, MAX_NUM_ASSETS + 1, MAX_NUM_ASSETS + 2}}
    \cup {WithDuplicate(MAX_NUM_ASSETS, MAX_NUM_ASSETS, 2), WithDuplicate(MAX_NUM_ASSETS + 1, 2, 1)}

AssetSlices == UNION {[1..n -> SmallAssets] : n \in 0..MaxShortLen} \cup LongSlices

NoteAssetsOk(assets) == [tag |-> "Ok", assets |-> assets, hash |-> None, kind |-> "none", args |-> << >>]
NoteError(kind, args) == [tag |-> "Err", assets |-> << >>, hash |-> None, kind |-> kind, args |-> args]
NoNoteAssets == [tag |-> "None", assets |-> << >>, hash |-> None, kind |-> "none", args |-> << >>]
NoteAssetsPanic == [tag |-> "Panic", assets |-> << >>, hash |-> None, kind |-> "none", args |-> << >>]

\* the error of the duplicate check for the asset it stopped at
duplicate_error(asset) ==
    IF asset.kind = "Fungible" THEN NoteError("DuplicateFungibleAsset", <<asset.faucet_id>>)
    ELSE NoteError("DuplicateNonFungibleAsset", <<asset>>)

\* the loop of NoteAssets::new (indices 0-based in the code, 1-based here): the index
\* of the iteration that returns the error, 0 when the loop runs to the end
duplicate_scan(assets) ==
    LET returns_at(i) ==
            i < Len(assets) /\ \E j \in (i + 1)..Len(assets) : is_same(assets[j], assets[i])
        hits == {i \in 1..Len(assets) : returns_at(i)}
    IN  IF hits = {} THEN 0 ELSE CHOOSE i \in hits : \A k \in hits : i <= k

\* mutant: the limit is MAX_ASSETS_PER_NOTE
NoteAssetsNew_per_note_limit(assets) ==
    IF Len(assets) = 0 THEN NoteError("EmptyAssetList", << >>)
    ELSE IF Len(assets) > MAX_ASSETS_PER_NOTE THEN NoteError("TooManyAssets", <<Len(assets)>>)
    ELSE LET i == duplicate_scan(assets)
         IN  IF i # 0 THEN duplicate_error(assets[i]) ELSE NoteAssetsOk(assets)

\* NoteAssets::new
NoteAssetsNew(assets) ==
    IF Len(assets) = 0 THEN NoteError("EmptyAssetList", << >>)
    ELSE IF Len(assets) > MAX_NUM_ASSETS THEN NoteError("TooManyAssets", <<Len(assets)>>)
    ELSE LET i == duplicate_scan(assets)
         IN  IF i # 0 THEN duplicate_error(assets[i]) ELSE NoteAssetsOk(assets)

\* no call made on the container yet
NoCalls == << >>

\* NoteAssets::new(&na_input)
NewNoteAssets ==
    /\ na.tag = "None"
    /\ na_wire = None
    /\ na' = NoteAssetsNew(na_input)
    /\ UNCHANGED <<debug_assertions, tx_vars, na_input, na_other, na_ret, na_wire, na_decoded, note_vars, reader_vars>>


\* most accessor calls made on one container of at most MaxShortLen assets
MaxAssetCalls == 3
\* most accessor calls made on one larger container
MaxLongCalls == 1

\* asset_elements.extend_from_slice(&asset_word) for each asset, in order
asset_elements_of(assets) ==
    [k \in 1..(Len(assets) * WORD_SIZE) |->
        asset_word(assets[((k - 1) \div WORD_SIZE) + 1])[((k - 1) % WORD_SIZE) + 1]]

\* Word::default()
WordDefault == <<ZERO, ZERO, ZERO, ZERO>>

\* mutant: no padding word for an odd number of assets
compute_asset_commitment_unpadded(assets) ==
    hash_elements(asset_elements_of(assets))

\* compute_asset_commitment
compute_asset_commitment(assets) ==
    LET asset_elements == asset_elements_of(assets)
    IN  IF Len(assets) % 2 = 1 THEN hash_elements(asset_elements \o WordDefault)
        ELSE hash_elements(asset_elements)

\* self.hash.get_or_init(|| compute_asset_commitment(&self.assets)): the container
\* after the call
get_or_init(n) ==
    IF is_some(n.hash) THEN n
    ELSE [n EXCEPT !.hash = Some(compute_asset_commitment(n.assets))]

\* NoteAssets::commitment: the digest returned
note_assets_commitment(n) == unwrap(get_or_init(n).hash)

\* NoteAssets::num_assets
num_assets(n) == Len(n.assets)

\* NoteAssets::iter: the assets in stored order
iter(n) == n.assets

\* Vec::resize(new_len, value)
resize(v, new_len, value) == [k \in 1..new_len |-> IF k <= Len(v) THEN v[k] ELSE value]

\* mutant: a padding word is appended whatever the number of assets
to_padded_assets_always_padded(n) ==
    LET padded_len == (Len(n.assets) + 1) * WORD_SIZE
    IN  resize(asset_elements_of(n.assets), padded_len, ZERO)

\* NoteAssets::to_padded_assets
to_padded_assets(n) ==
    LET padded_len == IF Len(n.assets) % 2 = 0 THEN Len(n.assets) * WORD_SIZE
                      ELSE (Len(n.assets) + 1) * WORD_SIZE
    IN  resize(asset_elements_of(n.assets), padded_len, ZERO)

\* mutant: containers are compared by their asset sets
note_assets_eq_unordered(a, b) == {a.assets[i] : i \in DOMAIN a.assets} = {b.assets[i] : i \in DOMAIN b.assets}

\* impl PartialEq for NoteAssets
note_assets_eq(a, b) == a.assets = b.assets

\* one more call on record
Called(call, value) == Append(na_ret, [call |-> call, value |-> value])

CanCallAssets ==
    /\ na.tag = "Ok"
    /\ Len(na_ret) < (IF Len(na.assets) > MaxShortLen THEN MaxLongCalls ELSE MaxAssetCalls)
AssetCallFrame == UNCHANGED <<debug_assertions, tx_vars, na_input, note_vars, reader_vars>>

\* na.commitment()
Commitment ==
    /\ CanCallAssets
    /\ na' = get_or_init(na)
    /\ na_ret' = Called("commitment", note_assets_commitment(na))
    /\ UNCHANGED <<na_other, na_wire, na_decoded>>
    /\ AssetCallFrame

\* na.num_assets()
NumAssets ==
    /\ CanCallAssets
    /\ na_ret' = Called("num_assets", num_assets(na))
    /\ UNCHANGED <<na, na_other, na_wire, na_decoded>>
    /\ AssetCallFrame

\* na.iter().collect()
Iter ==
    /\ CanCallAssets
    /\ na_ret' = Called("iter", iter(na))
    /\ UNCHANGED <<na, na_other, na_wire, na_decoded>>
    /\ AssetCallFrame

\* na.to_padded_assets()
ToPaddedAssets ==
    /\ CanCallAssets
    /\ na_ret' = Called("to_padded_assets", to_padded_assets(na))
    /\ UNCHANGED <<na, na_other, na_wire, na_decoded>>
    /\ AssetCallFrame

\* na.clone(): the derived Clone copies the assets and the cell with what it holds
Clone ==
    /\ CanCallAssets
    /\ na_other' = na
    /\ na_ret' = Called("clone", note_assets_eq(na, na_other'))
    /\ UNCHANGED <<na, na_wire, na_decoded>>
    /\ AssetCallFrame

\* commitment() on the clone
CloneCommitment ==
    /\ CanCallAssets
    /\ na_other.tag = "Ok"
    /\ na_other' = get_or_init(na_other)
    /\ na_ret' = Called("clone.commitment", note_assets_commitment(na_other))
    /\ UNCHANGED <<na, na_wire, na_decoded>>
    /\ AssetCallFrame


\* the slice in reverse order
Reversed(s) == [i \in DOMAIN s |-> s[Len(s) + 1 - i]]
\* the slice with its first entry moved to the end
Rotated(s) == [i \in DOMAIN s |-> IF i = Len(s) THEN s[1] ELSE s[i + 1]]
\* other orders of the same assets
Reorderings(s) == {Reversed(s), Rotated(s)}

\* a caller builds a second container from the same assets in another order, compares
\* it with the first and asks for its commitment
NewReordered ==
    /\ CanCallAssets
    /\ \E slice \in Reorderings(na_input) :
          LET built == NoteAssetsNew(slice)
          IN  na_ret' = Called("new_reordered",
                               [slice |-> slice,
                                built |-> built,
                                eq |-> built.tag = "Ok" /\ note_assets_eq(na, built),
                                commitment |-> IF built.tag = "Ok"
                                               THEN Some(note_assets_commitment(built)) ELSE None])
    /\ UNCHANGED <<na, na_other, na_wire, na_decoded>>
    /\ AssetCallFrame

\* a u8
U8_MAX == 255
as_u8(x) == x % (U8_MAX + 1)

\* Asset::write_into: the fixed-width encoding of one asset is its word
write_asset(a) == asset_word(a)

\* Asset::read_from: the asset a word encodes, None for a word that encodes none
read_asset(w) ==
    IF w[2] = ZERO /\ w[3] = ZERO /\ w[4] # ZERO THEN Some(Fungible(w[4], w[1]))
    ELSE IF w[2] # ZERO /\ w[3] = w[1] /\ w[4] = w[1] THEN Some(NonFungible(w[2], w[1]))
    ELSE None

\* impl Serializable for NoteAssets: the count byte, then the assets one after the other
note_assets_write_into(n) ==
    <<as_u8(Len(n.assets) - 1)>> \o [i \in DOMAIN n.assets |-> write_asset(n.assets[i])]

\* impl Deserializable for NoteAssets. `read_u8()? + 1` is u8 arithmetic: for the byte
\* 255 it panics where overflow checks are compiled in and wraps to 0 where not.
note_assets_read_from(bytes, debug) ==
    IF bytes = << >> THEN NoteError("DeserializationError", <<"UnexpectedEOF">>)
    ELSE LET byte == bytes[1]
             overflows == byte + 1 > U8_MAX
             count == as_u8(byte + 1)
             read == [i \in 1..count |-> read_asset(bytes[i + 1])]
         IN  IF overflows /\ debug THEN NoteAssetsPanic
             ELSE IF Len(bytes) - 1 < count
                 THEN NoteError("DeserializationError", <<"UnexpectedEOF">>)
             ELSE IF \E i \in 1..count : is_none(read[i])
                 THEN NoteError("DeserializationError", <<"InvalidValue">>)
             ELSE LET made == NoteAssetsNew([i \in 1..count |-> unwrap(read[i])])
                  IN  IF made.tag = "Ok" THEN made
                      ELSE NoteError("DeserializationError", <<"InvalidValue", made.kind>>)

\* bytes that reach the decoder from the network: every count byte followed by that
\* many assets plus one, and malformed inputs
ReceivedAssetBytes ==
    {<<byte>> \o [i \in 1..(byte + 1) |-> write_asset(DistinctAssets(byte + 1)[i])] : byte \in 0..U8_MAX}
    \cup {<< >>, <<U8_MAX>>, <<2, write_asset(Fungible(1, 10))>>,
          <<1, write_asset(Fungible(1, 10)), write_asset(Fungible(1, 20))>>,
          <<0, WordDefault>>,
          <<1, write_asset(NonFungible(3, 7)), write_asset(Fungible(1, 20))>>}

\* na.write_into(target); its debug_assert! on the length aborts a debug build
WriteInto ==
    /\ CanCallAssets
    /\ IF debug_assertions /\ Len(na.assets) > MAX_NUM_ASSETS
       THEN /\ na_ret' = Called("write_into", "panic")
            /\ UNCHANGED na_wire
       ELSE /\ na_ret' = Called("write_into", "done")
            /\ na_wire' = Some(note_assets_write_into(na))
    /\ UNCHANGED <<na, na_other, na_decoded>>
    /\ AssetCallFrame

\* bytes arrive from a peer
ReceiveAssetBytes ==
    /\ na_input = << >>
    /\ na.tag = "None"
    /\ na_wire = None
    /\ \E bytes \in ReceivedAssetBytes : na_wire' = Some(bytes)
    /\ UNCHANGED <<debug_assertions, tx_vars, na_input, na, na_other, na_ret, na_decoded, note_vars, reader_vars>>

\* NoteAssets::read_from_bytes
ReadFromBytes ==
    /\ is_some(na_wire)
    /\ na_decoded.tag = "None"
    /\ na_decoded' = note_assets_read_from(unwrap(na_wire), debug_assertions)
    /\ UNCHANGED <<debug_assertions, tx_vars, na_input, na, na_other, na_ret, na_wire, note_vars, reader_vars>>

\* ------------------------------------------------------------------------
\* Note constructors
\* ------------------------------------------------------------------------

\* most words already drawn from the randomness source when a constructor is called
MaxDrawn == 1

\* AccountId, a wrapper of one field element; Felt::from(id) unwraps it
NoteAccountIds == {[felt |-> 11], [felt |-> 12]}
felt_from_account_id(id) == id.felt

\* Felt::from(recall_height: u32)
RecallHeights == {0, 7}
felt_from_u32(h) == h

\* the precompiled scripts build_note_script returns
P2ID == "P2ID"
P2IDR == "P2IDR"
SWAP == "SWAP"

\* FeltRng::draw_word: the next word of the stream and the source after the draw
draw_word(r) ==
    [word |-> <<4 * r + 1, 4 * r + 2, 4 * r + 3, 4 * r + 4>>, rng |-> r + 1]

\* the four elements of a digest
digest_elements(d) == <<<<d, 0>>, <<d, 1>>, <<d, 2>>, <<d, 3>>>>

\* the recipient of a note: a digest of its script, inputs and serial number
recipient_of(script, inputs, serial_num) == hash_elements(<<script, inputs, serial_num>>)

\* utils::build_p2id_recipient(target, serial_num): the recipient of the pay-to-id note
\* for `target` with that serial number
build_p2id_recipient(target, serial_num) ==
    recipient_of(P2ID, <<felt_from_account_id(target), ZERO, ZERO, ZERO>>, serial_num)

NoteOk(note, returned) == [tag |-> "Ok", note |-> <<note>>, returned |-> returned, kind |-> "none", args |-> << >>]
NoteErr(kind, args) == [tag |-> "Err", note |-> << >>, returned |-> None, kind |-> kind, args |-> args]

\* Note::new(script, inputs, assets, serial_num, sender, tag)
NoteNew(script, inputs, assets, serial_num, sender, tag) ==
    LET note_assets == NoteAssetsNew(assets)
    IN  IF note_assets.tag = "Err" THEN NoteErr(note_assets.kind, note_assets.args)
        ELSE NoteOk([script |-> script,
                     inputs |-> inputs,
                     assets |-> note_assets,
                     serial_num |-> serial_num,
                     sender |-> sender,
                     tag |-> tag], None)

\* mutant: the tag is the sender's id
create_p2id_note_tag_sender(sender, target, assets, r) ==
    LET inputs == <<felt_from_account_id(target), ZERO, ZERO, ZERO>>
        tag == felt_from_account_id(sender)
        drawn == draw_word(r)
    IN  [out |-> NoteNew(P2ID, inputs, assets, drawn.word, sender, tag), rng |-> drawn.rng]

\* create_p2id_note: what it returns and the randomness source afterwards
create_p2id_note(sender, target, assets, r) ==
    LET inputs == <<felt_from_account_id(target), ZERO, ZERO, ZERO>>
        tag == felt_from_account_id(target)
        drawn == draw_word(r)
    IN  [out |-> NoteNew(P2ID, inputs, assets, drawn.word, sender, tag), rng |-> drawn.rng]

\* create_p2idr_note
create_p2idr_note(sender, target, assets, recall_height, r) ==
    LET inputs == <<felt_from_account_id(target), felt_from_u32(recall_height), ZERO, ZERO>>
        tag == felt_from_account_id(target)
        drawn == draw_word(r)
    IN  [out |-> NoteNew(P2IDR, inputs, assets, drawn.word, sender, tag), rng |-> drawn.rng]

\* mutant: the requested asset is put into the note with the offered one
create_swap_note_holds_requested(sender, offered_asset, requested_asset, r) ==
    LET repay == draw_word(r)
        repay_serial_num == repay.word
        recipient == digest_elements(build_p2id_recipient(sender, repay_serial_num))
        asset_word_ == asset_word(requested_asset)
        inputs == <<recipient[1], recipient[2], recipient[3], recipient[4],
                    asset_word_[1], asset_word_[2], asset_word_[3], asset_word_[4],
                    felt_from_account_id(sender), ZERO, ZERO, ZERO>>
        tag == 0
        drawn == draw_word(repay.rng)
        made == NoteNew(SWAP, inputs, <<offered_asset, requested_asset>>, drawn.word, sender, tag)
    IN  [out |-> IF made.tag = "Err" THEN made ELSE NoteOk(unwrap(made.note), Some(repay_serial_num)),
         rng |-> drawn.rng]

\* mutant: the note's serial number is drawn first, the repay serial number second
create_swap_note_draws_swapped(sender, offered_asset, requested_asset, r) ==
    LET drawn == draw_word(r)
        repay == draw_word(drawn.rng)
        repay_serial_num == repay.word
        recipient == digest_elements(build_p2id_recipient(sender, repay_serial_num))
        asset_word_ == asset_word(requested_asset)
        inputs == <<recipient[1], recipient[2], recipient[3], recipient[4],
                    asset_word_[1], asset_word_[2], asset_word_[3], asset_word_[4],
                    felt_from_account_id(sender), ZERO, ZERO, ZERO>>
        tag == 0
        made == NoteNew(SWAP, inputs, <<offered_asset>>, drawn.word, sender, tag)
    IN  [out |-> IF made.tag = "Err" THEN made ELSE NoteOk(unwrap(made.note), Some(repay_serial_num)),
         rng |-> repay.rng]

\* create_swap_note
create_swap_note(sender, offered_asset, requested_asset, r) ==
    LET repay == draw_word(r)
        repay_serial_num == repay.word
        recipient == digest_elements(build_p2id_recipient(sender, repay_serial_num))
        asset_word_ == asset_word(requested_asset)
        inputs == <<recipient[1], recipient[2], recipient[3], recipient[4],
                    asset_word_[1], asset_word_[2], asset_word_[3], asset_word_[4],
                    felt_from_account_id(sender), ZERO, ZERO, ZERO>>
        tag == 0
        drawn == draw_word(repay.rng)
        made == NoteNew(SWAP, inputs, <<offered_asset>>, drawn.word, sender, tag)
    IN  [out |-> IF made.tag = "Err" THEN made ELSE NoteOk(unwrap(made.note), Some(repay_serial_num)),
         rng |-> drawn.rng]

NoteCallFrame == UNCHANGED <<debug_assertions, tx_vars, asset_vars, reader_vars>>

\* a call of create_p2id_note
CreateP2id ==
    /\ note_args = << >>
    /\ \E sender \in NoteAccountIds, target \in NoteAccountIds, assets \in AssetSlices :
          LET call == create_p2id_note(sender, target, assets, rng)
          IN  /\ note_args' = [ctor |-> "p2id", sender |-> sender, target |-> target,
                               assets |-> assets, rng |-> rng]
              /\ note_out' = call.out
              /\ rng' = call.rng
    /\ NoteCallFrame

\* a call of create_p2idr_note
CreateP2idr ==
    /\ note_args = << >>
    /\ \E sender \in NoteAccountIds, target \in NoteAccountIds, assets \in AssetSlices,
          recall_height \in RecallHeights :
          LET call == create_p2idr_note(sender, target, assets, recall_height, rng)
          IN  /\ note_args' = [ctor |-> "p2idr", sender |-> sender, target |-> target,
                               assets |-> assets, recall_height |-> recall_height, rng |-> rng]
              /\ note_out' = call.out
              /\ rng' = call.rng
    /\ NoteCallFrame

\* a call of create_swap_note
CreateSwap ==
    /\ note_args = << >>
    /\ \E sender \in NoteAccountIds, offered_asset \in SmallAssets, requested_asset \in SmallAssets :
          LET call == create_swap_note(sender, offered_asset, requested_asset, rng)
          IN  /\ note_args' = [ctor |-> "swap", sender |-> sender, offered_asset |-> offered_asset,
                               requested_asset |-> requested_asset, rng |-> rng]
              /\ note_out' = call.out
              /\ rng' = call.rng
    /\ NoteCallFrame

\* ------------------------------------------------------------------------
\* Threads reading one NoteAssets
\* ------------------------------------------------------------------------

\* threads that share one container
NumReaders == 2
Readers == 1..NumReaders

\* a thread's place in commitment(): pc is "idle", "compute" (the cell looked empty),
\* "set" (the digest is computed), "writing" (the store into the cell has begun),
\* "done" (returned) or "panicked"
ReaderAt(at, val, ret) == [pc |-> at, val |-> val, ret |-> ret]

ReadersIdle ==
    /\ rd = [r \in Readers |-> ReaderAt("idle", None, None)]
    /\ cell_writers = {}
    /\ cell_writes = 0

\* a digest read while another thread's store was half done
Torn(d) == <<"torn", d>>

\* what a load of the cell can give. core::cell::OnceCell has no synchronization: a
\* load that races with a store is a data race, and may give the old content, the new
\* content or a mix of both.
CellLoads ==
    IF cell_writers = {} THEN {na.hash}
    ELSE {na.hash} \cup UNION {{Some(unwrap(rd[w].val)), Some(Torn(unwrap(rd[w].val)))} : w \in cell_writers}

ReaderFrame == UNCHANGED <<debug_assertions, tx_vars, na_input, na_other, na_ret, na_wire, na_decoded, note_vars>>

\* get_or_init, first part: `if let Some(val) = self.get() { return val; }`
ReaderGet(r) ==
    /\ rd[r].pc = "idle"
    /\ \E loaded \in CellLoads :
          rd' = [rd EXCEPT ![r] = IF is_some(loaded) THEN ReaderAt("done", None, loaded)
                                  ELSE ReaderAt("compute", None, None)]
    /\ UNCHANGED <<na, cell_writers, cell_writes>>
    /\ ReaderFrame

\* get_or_init, the closure: compute_asset_commitment(&self.assets)
ReaderCompute(r) ==
    /\ rd[r].pc = "compute"
    /\ rd' = [rd EXCEPT ![r] = ReaderAt("set", Some(compute_asset_commitment(na.assets)), None)]
    /\ UNCHANGED <<na, cell_writers, cell_writes>>
    /\ ReaderFrame

\* get_or_init, `assert!(self.set(val).is_ok(), "reentrant init")`: set() gives Err when
\* it finds the cell filled, else it starts storing Some(val)
ReaderSet(r) ==
    /\ rd[r].pc = "set"
    /\ \E loaded \in CellLoads :
          IF is_some(loaded)
          THEN /\ rd' = [rd EXCEPT ![r] = ReaderAt("panicked", rd[r].val, None)]
               /\ UNCHANGED <<cell_writers, cell_writes>>
          ELSE /\ rd' = [rd EXCEPT ![r] = ReaderAt("writing", rd[r].val, None)]
               /\ cell_writers' = cell_writers \cup {r}
               /\ cell_writes' = cell_writes + 1
    /\ UNCHANGED na
    /\ ReaderFrame

\* the store completes and commitment() returns what the cell holds
ReaderStored(r) ==
    /\ rd[r].pc = "writing"
    /\ na' = [na EXCEPT !.hash = rd[r].val]
    /\ cell_writers' = cell_writers \ {r}
    /\ \E loaded \in {rd[r].val} \cup
                     UNION {{Some(Torn(unwrap(rd[w].val)))} : w \in cell_writers \ {r}} :
          rd' = [rd EXCEPT ![r] = ReaderAt("done", rd[r].val, loaded)]
    /\ UNCHANGED cell_writes
    /\ ReaderFrame

\* ------------------------------------------------------------------------
\* Specifications
\* ------------------------------------------------------------------------

\* nothing has been done with note assets
AssetsIdle ==
    /\ na_input = << >>
    /\ na = NoNoteAssets
    /\ na_other = NoNoteAssets
    /\ na_ret = NoCalls
    /\ na_wire = None
    /\ na_decoded = NoNoteAssets

\* no note constructor has been called
NotesIdle ==
    /\ rng = 0
    /\ note_args = << >>
    /\ note_out = << >>

\* no transaction is being built or decoded
TxIdle ==
    /\ pc = "start"
    /\ builder = << >>
    /\ calls = 0
    /\ result = NoResult
    /\ wire = << >>
    /\ decoded = NoResult
    /\ executed = << >>
    /\ id_args = << >>
    /\ id_out = << >>

Init ==
    /\ debug_assertions \in BOOLEAN
    /\ ReadersIdle
    /\ AssetsIdle
    /\ NotesIdle
    /\ pc = "start"
    /\ builder = << >>
    /\ calls = 0
    /\ result = NoResult
    /\ wire = << >>
    /\ decoded = NoResult
    /\ executed = << >>
    /\ id_args = << >>
    /\ id_out = << >>

Next ==
    \/ New
    \/ account_details
    \/ add_input_notes
    \/ add_output_notes
    \/ add_output_note_details
    \/ tx_script_root
    \/ Build
    \/ ProveTransaction
    \/ Encode
    \/ Receive
    \/ Decode

Spec == Init /\ [][Next]_vars

\* TransactionId::new applied to pairs of argument tuples
InitId ==
    /\ debug_assertions \in BOOLEAN
    /\ ReadersIdle
    /\ AssetsIdle
    /\ NotesIdle
    /\ pc = "start"
    /\ builder = << >>
    /\ calls = 0
    /\ result = NoResult
    /\ wire = << >>
    /\ decoded = NoResult
    /\ executed = << >>
    /\ id_args \in IdArgs \X IdArgs
    /\ id_out = << >>

NextId == ComputeIds

SpecId == InitId /\ [][NextId]_vars

\* NoteAssets: construction from a slice, the accessors, the wire format
InitAssets ==
    /\ debug_assertions \in BOOLEAN
    /\ ReadersIdle
    /\ TxIdle
    /\ NotesIdle
    /\ na_input \in AssetSlices
    /\ na = NoNoteAssets
    /\ na_other = NoNoteAssets
    /\ na_ret = NoCalls
    /\ na_wire = None
    /\ na_decoded = NoNoteAssets

NextAssets ==
    \/ NewNoteAssets
    \/ Commitment
    \/ NumAssets
    \/ Iter
    \/ ToPaddedAssets
    \/ Clone
    \/ CloneCommitment
    \/ NewReordered
    \/ WriteInto
    \/ ReceiveAssetBytes
    \/ ReadFromBytes

SpecAssets == InitAssets /\ [][NextAssets]_vars

\* the note constructors, called on a randomness source that may have been drawn from
InitNotes ==
    /\ debug_assertions \in BOOLEAN
    /\ ReadersIdle
    /\ TxIdle
    /\ AssetsIdle
    /\ rng \in 0..MaxDrawn
    /\ note_args = << >>
    /\ note_out = << >>

NextNotes ==
    \/ CreateP2id
    \/ CreateP2idr
    \/ CreateSwap

SpecNotes == InitNotes /\ [][NextNotes]_vars

\* threads calling commitment() on one constructed NoteAssets they share
InitReaders ==
    /\ debug_assertions \in BOOLEAN
    /\ ReadersIdle
    /\ TxIdle
    /\ NotesIdle
    /\ na_input \in {s \in AssetSlices : Len(s) <= MaxShortLen /\ NoteAssetsNew(s).tag = "Ok"}
    /\ na = NoteAssetsNew(na_input)
    /\ na_other = NoNoteAssets
    /\ na_ret = NoCalls
    /\ na_wire = None
    /\ na_decoded = NoNoteAssets

NextReaders ==
    \/ \E r \in Readers : ReaderGet(r)
    \/ \E r \in Readers : ReaderCompute(r)
    \/ \E r \in Readers : ReaderSet(r)
    \/ \E r \in Readers : ReaderStored(r)

SpecReaders == InitReaders /\ [][NextReaders]_vars

\* ------------------------------------------------------------------------
\* Properties of build()
\* ------------------------------------------------------------------------

\* build() has returned (a value or an error) for the builder on record
Returned == result.tag \in {"Ok", "Err"}

\* the note ids a run of envelopes stands for
RunNoteIds(r) == r.note_id .. (r.note_id + r.n - 1)
RunNullifiers(r) == r.first .. (r.first + r.n - 1)

\* the keys of the disclosed-output mapping that are the note id of no envelope
AbsentKeys(b) ==
    {k \in DOMAIN b.output_note_details :
        \A i \in DOMAIN b.output_notes : k \notin RunNoteIds(b.output_notes[i])}

SeqRange(q) == {q[i] : i \in DOMAIN q}

\* C1: build() fails with NoteDetailsForUnknownNotes exactly when some key of the
\* disclosed-output mapping is the note id of no accumulated envelope; the error then
\* carries each absent key once and no present key; when every key is present, a
\* returned transaction carries the disclosed notes unchanged.
C1_UnknownNoteDetails ==
    Returned =>
        LET absent == AbsentKeys(builder)
        IN  /\ (result.kind = "NoteDetailsForUnknownNotes") <=> (absent # {})
            /\ result.kind = "NoteDetailsForUnknownNotes" =>
                   /\ SeqRange(result.args[1]) = absent
                   /\ Len(result.args[1]) = Cardinality(absent)
            /\ (absent = {} /\ result.tag = "Ok") =>
                   unwrap(result.tx).output_note_details = builder.output_note_details

\* the error names one absent key while another key of the mapping is present
C1_Witness ==
    /\ Returned
    /\ result.kind = "NoteDetailsForUnknownNotes"
    /\ Len(result.args[1]) = 1
    /\ Cardinality(DOMAIN builder.output_note_details) = 2

\* steps 1-3 of build() pass: no unknown key, both note collections valid
EarlierStepsPass(b) ==
    /\ AbsentKeys(b) = {}
    /\ InputNotesNew(b.input_notes).ok
    /\ OutputNotesNew(b.output_notes).ok

IsNewAccount(b) == b.initial_account_hash = None
HasFull(b) == is_some(b.account_details) /\ unwrap(b.account_details).variant = "Full"
HasDelta(b) == is_some(b.account_details) /\ unwrap(b.account_details).variant = "Delta"
Snapshot(b) == unwrap(unwrap(b.account_details).account)

\* C2: for an on-chain account with details set and steps 1-3 passing: new+Delta and
\* existing+Full fail with their own error, existing+Delta succeeds, and new+Full
\* succeeds iff the snapshot's id and hash match, failing with AccountIdMismatch
\* (first) or AccountFinalHashMismatch otherwise.
C2_OnChainMatrix ==
    (Returned /\ is_on_chain(builder.account_id) /\ is_some(builder.account_details)
        /\ EarlierStepsPass(builder)) =>
        /\ (IsNewAccount(builder) /\ HasDelta(builder)) =>
               result.kind = "NewOnChainAccountRequiresFullDetails"
        /\ (~IsNewAccount(builder) /\ HasFull(builder)) =>
               result.kind = "ExistingOnChainAccountRequiresDeltaDetails"
        /\ (~IsNewAccount(builder) /\ HasDelta(builder)) => result.tag = "Ok"
        /\ (IsNewAccount(builder) /\ HasFull(builder)) =>
               /\ (result.tag = "Ok") <=>
                      /\ Snapshot(builder).id = builder.account_id
                      /\ Snapshot(builder).hash = builder.final_account_hash
               /\ Snapshot(builder).id # builder.account_id =>
                      /\ result.kind = "AccountIdMismatch"
                      /\ result.args = <<builder.account_id, Snapshot(builder).id>>
               /\ (Snapshot(builder).id = builder.account_id
                      /\ Snapshot(builder).hash # builder.final_account_hash) =>
                      /\ result.kind = "AccountFinalHashMismatch"
                      /\ result.args = <<builder.final_account_hash, Snapshot(builder).hash>>

\* a new on-chain account whose snapshot has the wrong id and the wrong hash
C2_Witness ==
    /\ Returned
    /\ is_on_chain(builder.account_id)
    /\ EarlierStepsPass(builder)
    /\ IsNewAccount(builder)
    /\ HasFull(builder)
    /\ Snapshot(builder).id # builder.account_id
    /\ Snapshot(builder).hash # builder.final_account_hash
    /\ result.kind = "AccountIdMismatch"

AccountRuleErrors ==
    {"OffChainAccountWithDetails", "OnChainAccountMissingDetails",
     "NewOnChainAccountRequiresFullDetails", "ExistingOnChainAccountRequiresDeltaDetails",
     "AccountIdMismatch", "AccountFinalHashMismatch"}

\* C3 as stated: AccountDetails on an off-chain builder always makes build() fail with
\* OffChainAccountWithDetails.
C3_AsStated ==
    (Returned /\ ~is_on_chain(builder.account_id) /\ is_some(builder.account_details)) =>
        result.kind = "OffChainAccountWithDetails"

\* C3, amended: AccountDetails on an off-chain builder always makes build() fail, with
\* OffChainAccountWithDetails when steps 1-3 pass (an earlier rule's error otherwise),
\* whatever the variant and the initial hash; an off-chain builder without details is
\* never rejected by an account-disclosure rule.
C3_OffChainWithDetails ==
    Returned =>
        /\ (~is_on_chain(builder.account_id) /\ is_some(builder.account_details)) =>
               /\ result.tag = "Err"
               /\ result.kind \in {"NoteDetailsForUnknownNotes", "InputNotesError",
                                   "OutputNotesError", "OffChainAccountWithDetails"}
               /\ EarlierStepsPass(builder) =>
                      /\ result.kind = "OffChainAccountWithDetails"
                      /\ result.args = <<builder.account_id>>
        /\ (~is_on_chain(builder.account_id) /\ is_none(builder.account_details)) =>
               result.kind \notin AccountRuleErrors

\* an off-chain builder of an existing account, given a delta, is rejected
C3_Witness ==
    /\ Returned
    /\ ~is_on_chain(builder.account_id)
    /\ HasDelta(builder)
    /\ ~IsNewAccount(builder)
    /\ result.kind = "OffChainAccountWithDetails"

\* C4: an on-chain builder on which account_details() was never called fails with
\* OnChainAccountMissingDetails once steps 1-3 pass, new account or existing; build()
\* returns no transaction of an on-chain account without AccountDetails.
C4_OnChainMissingDetails ==
    Returned =>
        /\ (is_on_chain(builder.account_id) /\ is_none(builder.account_details)
               /\ EarlierStepsPass(builder)) =>
               /\ result.kind = "OnChainAccountMissingDetails"
               /\ result.args = <<builder.account_id>>
        /\ (result.tag = "Ok" /\ is_on_chain(unwrap(result.tx).account_id)) =>
               is_some(unwrap(result.tx).account_details)

\* an existing on-chain account without details is rejected
C4_Witness ==
    /\ Returned
    /\ is_on_chain(builder.account_id)
    /\ is_none(builder.account_details)
    /\ ~IsNewAccount(builder)
    /\ result.kind = "OnChainAccountMissingDetails"

\* which rule of the validation sequence an outcome belongs to (0: success)
RuleOf(r) ==
    IF r.tag = "Ok" THEN 0
    ELSE IF r.kind = "NoteDetailsForUnknownNotes" THEN 1
    ELSE IF r.kind = "InputNotesError" THEN 2
    ELSE IF r.kind = "OutputNotesError" THEN 3
    ELSE IF r.kind = "OffChainAccountWithDetails" THEN 4
    ELSE IF r.kind \in AccountRuleErrors THEN 5
    ELSE 6

\* the rules a builder violates
Violates(b, rule) ==
    CASE rule = 1 -> AbsentKeys(b) # {}
      [] rule = 2 -> ~InputNotesNew(b.input_notes).ok
      [] rule = 3 -> ~OutputNotesNew(b.output_notes).ok
      [] rule = 4 -> ~is_on_chain(b.account_id) /\ is_some(b.account_details)
      [] rule = 5 -> /\ is_on_chain(b.account_id)
                     /\ \/ is_none(b.account_details)
                        \/ IsNewAccount(b) /\ HasDelta(b)
                        \/ ~IsNewAccount(b) /\ HasFull(b)
                        \/ /\ IsNewAccount(b) /\ HasFull(b)
                           /\ \/ Snapshot(b).id # b.account_id
                              \/ Snapshot(b).hash # b.final_account_hash

\* position of an on-chain disclosure error within rule 5
OnChainStep(kind) ==
    CASE kind = "OnChainAccountMissingDetails" -> 1
      [] kind \in {"NewOnChainAccountRequiresFullDetails",
                   "ExistingOnChainAccountRequiresDeltaDetails"} -> 2
      [] kind = "AccountIdMismatch" -> 3
      [] kind = "AccountFinalHashMismatch" -> 4
      [] OTHER -> 0

\* C5: build() returns the error of the first violated rule in the order (1) unknown
\* note details, (2) input notes, (3) output notes, (4) off-chain account with details,
\* (5) on-chain disclosure (missing, wrong shape, id mismatch, hash mismatch); it
\* succeeds only when no rule is violated.
C5_FirstViolatedRule ==
    Returned =>
        /\ RuleOf(result) \in 0..5
        /\ \A rule \in 1..5 :
               (RuleOf(result) = rule) <=>
                   (Violates(builder, rule) /\ \A earlier \in 1..(rule - 1) : ~Violates(builder, earlier))
        /\ (RuleOf(result) = 0) <=> (\A rule \in 1..5 : ~Violates(builder, rule))
        /\ RuleOf(result) = 5 =>
               OnChainStep(result.kind) =
                   (IF is_none(builder.account_details) THEN 1
                    ELSE IF IsNewAccount(builder) # HasFull(builder) THEN 2
                    ELSE IF Snapshot(builder).id # builder.account_id THEN 3
                    ELSE 4)

\* a builder violating rules 1, 2 and 4 at once gets rule 1's error
C5_Witness ==
    /\ Returned
    /\ Violates(builder, 1)
    /\ Violates(builder, 2)
    /\ Violates(builder, 4)
    /\ result.kind = "NoteDetailsForUnknownNotes"

\* no two entries of a nullifier vector are equal
NullifiersDistinct(runs) ==
    \A i, j \in DOMAIN runs :
        i < j => \A x \in RunNullifiers(runs[j]) : x \notin RunNullifiers(runs[i])

\* no two envelopes of a vector have the same note id
NoteIdsDistinct(runs) ==
    \A i, j \in DOMAIN runs :
        i < j => \A x \in RunNoteIds(runs[j]) : x \notin RunNoteIds(runs[i])

InputsRejected(b) ==
    has_duplicate_nullifier(b.input_notes) \/ num_notes(b.input_notes) > MAX_INPUT_NOTES_PER_TX
OutputsRejected(b) ==
    has_duplicate_note_id(b.output_notes) \/ num_notes(b.output_notes) > MAX_OUTPUT_NOTES_PER_TX

TxNotesValid(tx) ==
    /\ NullifiersDistinct(tx.input_notes)
    /\ NoteIdsDistinct(tx.output_notes)
    /\ num_notes(tx.input_notes) <= MAX_INPUT_NOTES_PER_TX
    /\ num_notes(tx.output_notes) <= MAX_OUTPUT_NOTES_PER_TX

\* C6 as stated: a returned transaction has distinct nullifiers and note ids within
\* the caps; build() fails with InputNotesError on a repeated nullifier or more than
\* 1023 of them, and with OutputNotesError on a repeated note id or more than 4096
\* envelopes.
C6_AsStated ==
    Returned =>
        /\ result.tag = "Ok" => TxNotesValid(unwrap(result.tx))
        /\ InputsRejected(builder) => result.kind = "InputNotesError"
        /\ OutputsRejected(builder) => result.kind = "OutputNotesError"

\* C6, amended: a returned transaction has distinct nullifiers and note ids within the
\* caps; a repeated nullifier or more than 1023 of them makes build() fail, with
\* InputNotesError unless a disclosed-note key is unknown; a repeated note id or more
\* than 4096 envelopes makes build() fail, with OutputNotesError unless a disclosed-note
\* key is unknown or the input notes are rejected.
C6_NoteCollections ==
    Returned =>
        /\ result.tag = "Ok" => TxNotesValid(unwrap(result.tx))
        /\ InputsRejected(builder) =>
               /\ result.tag = "Err"
               /\ AbsentKeys(builder) = {} => result.kind = "InputNotesError"
        /\ OutputsRejected(builder) =>
               /\ result.tag = "Err"
               /\ (AbsentKeys(builder) = {} /\ ~InputsRejected(builder)) =>
                      result.kind = "OutputNotesError"

\* 4097 distinct envelopes are rejected while exactly 1023 distinct nullifiers pass
C6_Witness ==
    /\ Returned
    /\ num_notes(builder.input_notes) = MAX_INPUT_NOTES_PER_TX
    /\ num_notes(builder.output_notes) = MAX_OUTPUT_NOTES_PER_TX + 1
    /\ ~has_duplicate_note_id(builder.output_notes)
    /\ result.kind = "OutputNotesError"

\* ------------------------------------------------------------------------
\* Properties of every ProvenTransaction, built or decoded
\* ------------------------------------------------------------------------

\* every key of the disclosed-output mapping is the note id of an output envelope
DetailsKeysKnown(tx) ==
    \A k \in DOMAIN tx.output_note_details :
        \E i \in DOMAIN tx.output_notes : k \in RunNoteIds(tx.output_notes[i])

\* C7: in every ProvenTransaction, returned by build() or decoded from bytes, every key
\* of the disclosed-output mapping is the note id of one of its output notes.
C7_DetailsKeysKnown ==
    /\ result.tag = "Ok" => DetailsKeysKnown(unwrap(result.tx))
    /\ decoded.tag = "Ok" => DetailsKeysKnown(unwrap(decoded.tx))

\* the disclosure shape: none off-chain; on-chain, Full for a new account and Delta for
\* an existing one
DisclosureShapeOk(tx) ==
    IF ~is_on_chain(tx.account_id) THEN is_none(tx.account_details)
    ELSE /\ is_some(tx.account_details)
         /\ (unwrap(tx.account_details).variant = "Full") <=> is_none(tx.initial_account_hash)
         /\ (unwrap(tx.account_details).variant = "Delta") <=> is_some(tx.initial_account_hash)

\* C8: in every ProvenTransaction, returned by build() or decoded from bytes, an
\* off-chain account carries no AccountDetails and an on-chain account carries Full
\* details exactly when new and Delta details exactly when existing.
C8_DisclosureShape ==
    /\ result.tag = "Ok" => DisclosureShapeOk(unwrap(result.tx))
    /\ decoded.tag = "Ok" => DisclosureShapeOk(unwrap(decoded.tx))

\* ------------------------------------------------------------------------
\* Properties of the transaction id
\* ------------------------------------------------------------------------

\* C9: the id of a proven transaction equals the id derived from the executed
\* transaction it was proven from; the proven transaction's initial hash is absent
\* exactly when the executed transaction's initial account is new.
C9_ProvenIdIsExecutedId ==
    (executed # << >> /\ result.tag = "Ok") =>
        LET tx == unwrap(result.tx)
            etx == unwrap(executed)
        IN  /\ tx.id = FromExecutedTransaction(etx)
            /\ FromProvenTransaction(tx) = FromExecutedTransaction(etx)
            /\ is_none(tx.initial_account_hash) <=> etx.initial_account.is_new

\* an existing account's transaction with input and output notes has been proven
C9_Witness ==
    /\ executed # << >>
    /\ result.tag = "Ok"
    /\ ~unwrap(executed).initial_account.is_new
    /\ unwrap(executed).input_notes # << >>
    /\ unwrap(executed).output_notes # << >>
    /\ unwrap(result.tx).id = FromExecutedTransaction(unwrap(executed))

\* the four words TransactionId::new hashes for an argument tuple
IdWords(a) == <<unwrap_or_default(a[1]), a[2], a[3], a[4]>>

\* how many of the four arguments differ
ArgsDiffering(a, b) == Cardinality({i \in 1..4 : a[i] # b[i]})

\* b is a with the values of two fields exchanged
IsSwapOf(a, b) ==
    \E i, j \in 2..4 : i < j /\ b = [a EXCEPT ![i] = a[j], ![j] = a[i]]

\* C10: on arguments that meet the precondition, TransactionId::new returns equal ids
\* exactly for equal word tuples: one differing field gives a different id, exchanging
\* two different field values changes the id, and an absent initial hash never shares
\* an id with a present one.
C10_IdInjective ==
    (id_out # << >> /\ InitHashAssertion(id_args[1][1]) /\ InitHashAssertion(id_args[2][1])) =>
        LET a == id_args[1]
            b == id_args[2]
        IN  /\ is_some(id_out[1]) /\ is_some(id_out[2])
            /\ (id_out[1] = id_out[2]) <=> (IdWords(a) = IdWords(b))
            /\ ArgsDiffering(a, b) = 1 => id_out[1] # id_out[2]
            /\ (IsSwapOf(a, b) /\ a # b) => id_out[1] # id_out[2]
            /\ (is_none(a[1]) /\ is_some(b[1])) => id_out[1] # id_out[2]

\* an absent and a present initial hash, all else equal, got different ids
C10_Witness ==
    /\ id_out # << >>
    /\ is_none(id_args[1][1])
    /\ id_args[2][1] = Some(1)
    /\ id_args[1][2] = id_args[2][2]
    /\ id_args[1][3] = id_args[2][3]
    /\ id_args[1][4] = id_args[2][4]
    /\ is_some(id_out[1]) /\ is_some(id_out[2])
    /\ id_out[1] # id_out[2]

\* ------------------------------------------------------------------------
\* The precondition of TransactionId::new
\* ------------------------------------------------------------------------

\* the wire carries a present initial account hash that is all zeros
WireInitIsZero == wire # << >> /\ read_option(wire[2]) = Some(DigestDefault)

\* the id TransactionId::new gives the same transaction when its account is new
NewAccountId(tx) ==
    TransactionIdNew(None, tx.final_account_hash,
                     commitment(tx.input_notes), commitment(tx.output_notes))

\* C11: the initial account hash is never Some(all-zero digest) where a transaction id
\* is computed: not in a builder new() returned, not in a transaction build() returned,
\* not in a decoded transaction; bytes that carry a present all-zero initial hash are
\* answered with a decode error: no panic, and no transaction whose id is the id of a
\* new-account transaction.
C11_InitHashPrecondition ==
    /\ builder # << >> => InitHashAssertion(builder.initial_account_hash)
    /\ result.tag = "Ok" => InitHashAssertion(unwrap(result.tx).initial_account_hash)
    /\ decoded.tag = "Ok" => InitHashAssertion(unwrap(decoded.tx).initial_account_hash)
    /\ (WireInitIsZero /\ pc \in {"decoded", "panicked"}) =>
          /\ decoded.tag # "Panic"
          /\ decoded.tag = "Err"
          /\ decoded.tag = "Ok" => unwrap(decoded.tx).id # NewAccountId(unwrap(decoded.tx))

\* ------------------------------------------------------------------------
\* Properties of NoteAssets
\* ------------------------------------------------------------------------

\* the positions of the slice that have the same asset at a later position
DuplicatedPositions(assets) ==
    {i \in DOMAIN assets : \E j \in DOMAIN assets : j > i /\ is_same(assets[i], assets[j])}

\* the least element of a non-empty set of positions
Least(S) == CHOOSE i \in S : \A j \in S : i <= j

PaddedWords(assets) ==
    LET words == [i \in DOMAIN assets |-> asset_word(assets[i])]
    IN  IF Len(assets) % 2 = 1 THEN Append(words, <<0, 0, 0, 0>>) ELSE words

\* the elements of a sequence of words, one after the other
Flatten(words) == [k \in 1..(4 * Len(words)) |-> words[(k + 3) \div 4][((k - 1) % 4) + 1]]

\* the sequential hash of the padded asset words
SequentialHash(assets) == hash_elements(Flatten(PaddedWords(assets)))

CommitmentCalls == {i \in DOMAIN na_ret : na_ret[i].call \in {"commitment", "clone.commitment"}}

\* C13: every commitment() call on a constructed NoteAssets or on its clone, however it
\* is interleaved with the other calls, returns the sequential hash of the asset words in
\* stored order plus a zero word for an odd count; a filled cache holds that digest, and
\* the stored assets stay the slice the container was built from.
C13_CommitmentStable ==
    na.tag = "Ok" =>
        /\ na.assets = na_input
        /\ is_some(na.hash) => unwrap(na.hash) = SequentialHash(na_input)
        /\ na_other.tag = "Ok" =>
              /\ na_other.assets = na_input
              /\ is_some(na_other.hash) => unwrap(na_other.hash) = SequentialHash(na_input)
        /\ \A i \in CommitmentCalls : na_ret[i].value = SequentialHash(na_input)

\* commitment() was called, other calls followed, and it was called again, on a
\* container with an odd number of assets
C13_Witness ==
    /\ na.tag = "Ok"
    /\ Len(na_input) % 2 = 1
    /\ Len(na_ret) = 3
    /\ na_ret[1].call = "commitment"
    /\ na_ret[2].call = "to_padded_assets"
    /\ na_ret[3].call = "commitment"

ReorderedCalls == {i \in DOMAIN na_ret : na_ret[i].call = "new_reordered"}

\* C14: a second NoteAssets built from the same two or more assets in another order is
\* accepted, stores its slice as given, compares unequal to the first and has another
\* commitment (the hash being injective); built from the same order it is equal and
\* has the same commitment.
C14_OrderSensitive ==
    na.tag = "Ok" =>
        \A i \in ReorderedCalls :
            LET o == na_ret[i].value
            IN  /\ o.built.tag = "Ok"
                /\ o.built.assets = o.slice
                /\ o.slice # na_input =>
                      /\ ~o.eq
                      /\ unwrap(o.commitment) # SequentialHash(na_input)
                /\ o.slice = na_input =>
                      /\ o.eq
                      /\ unwrap(o.commitment) = SequentialHash(na_input)

\* three assets were stored, and the same three in another order gave another container
C14_Witness ==
    /\ na.tag = "Ok"
    /\ Len(na_input) = 3
    /\ \E i \in ReorderedCalls :
          /\ na_ret[i].value.slice # na_input
          /\ na_ret[i].value.built.tag = "Ok"
          /\ {na_ret[i].value.slice[k] : k \in 1..3} = {na_input[k] : k \in 1..3}

PaddedCalls == {i \in DOMAIN na_ret : na_ret[i].call = "to_padded_assets"}

\* C15: to_padded_assets() returns the four elements of each asset in stored order,
\* then four zeros when the number of assets is odd and nothing when it is even; its
\* length is 4*count for an even and 4*(count+1) for an odd count, a multiple of 8, and
\* the hash of the returned elements is the commitment.
C15_PaddedAssets ==
    na.tag = "Ok" =>
        \A i \in PaddedCalls :
            LET padded == na_ret[i].value
                count == Len(na_input)
            IN  /\ \A a \in 1..count : \A e \in 1..4 :
                      padded[4 * (a - 1) + e] = asset_word(na_input[a])[e]
                /\ count % 2 = 0 => Len(padded) = 4 * count
                /\ count % 2 = 1 =>
                      /\ Len(padded) = 4 * (count + 1)
                      /\ \A e \in 1..4 : padded[4 * count + e] = 0
                /\ Len(padded) % 4 = 0
                /\ Len(padded) % 8 = 0
                /\ hash_elements(padded) = note_assets_commitment(na)
                /\ \A j \in CommitmentCalls : hash_elements(padded) = na_ret[j].value

\* to_padded_assets() was called on a container of 255 assets
C15_Witness ==
    /\ na.tag = "Ok"
    /\ Len(na_input) = 255
    /\ PaddedCalls # {}

\* the bytes were produced by write_into on the container in hand
IsOwnEncoding == na.tag = "Ok" /\ na_wire = Some(note_assets_write_into(na))

\* C16: decoding a NoteAssets never panics; for every leading byte b it returns a
\* container of b+1 assets that is non-empty, has at most 255 assets and no
\* duplicates, or an error; the byte 255 is answered with an error; and the encoding of
\* a valid container decodes to an equal container.
C16_DecodeChecked ==
    na_decoded.tag # "None" =>
        /\ na_decoded.tag \in {"Ok", "Err"}
        /\ na_decoded.tag = "Ok" =>
              /\ Len(na_decoded.assets) = unwrap(na_wire)[1] + 1
              /\ 1 <= Len(na_decoded.assets)
              /\ Len(na_decoded.assets) <= 255
              /\ DuplicatedPositions(na_decoded.assets) = {}
        /\ (unwrap(na_wire) # << >> /\ unwrap(na_wire)[1] = 255) => na_decoded.tag = "Err"
        /\ IsOwnEncoding => na_decoded.tag = "Ok" /\ na_decoded.assets = na.assets

\* ------------------------------------------------------------------------
\* The ProvenTransaction round trip
\* ------------------------------------------------------------------------

\* the bytes in hand were produced by encoding the transaction build() returned, and
\* the decoder has run on them
DecodedOwnEncoding ==
    /\ result.tag = "Ok"
    /\ wire # << >>
    /\ pc \in {"decoded", "panicked"}

\* C17: decoding the encoding of a transaction build() returned succeeds, and the decoded
\* transaction has the same id, account id, initial and final account hash, account
\* details, input notes, output notes, disclosed-output mapping, script root and block
\* reference.
C17_RoundTrip ==
    DecodedOwnEncoding =>
        /\ decoded.tag = "Ok"
        /\ LET tx == unwrap(result.tx)
               back == unwrap(decoded.tx)
           IN  /\ back.id = tx.id
               /\ back.account_id = tx.account_id
               /\ back.initial_account_hash = tx.initial_account_hash
               /\ back.final_account_hash = tx.final_account_hash
               /\ back.account_details = tx.account_details
               /\ back.input_notes = tx.input_notes
               /\ back.output_notes = tx.output_notes
               /\ DOMAIN back.output_note_details = DOMAIN tx.output_note_details
               /\ \A k \in DOMAIN tx.output_note_details :
                     back.output_note_details[k] = tx.output_note_details[k]
               /\ back.tx_script_root = tx.tx_script_root
               /\ back.block_ref = tx.block_ref

\* a transaction of a new account with account details, output notes, a disclosed output
\* note and a script root went through encode and decode
C17_Witness ==
    /\ DecodedOwnEncoding
    /\ decoded.tag = "Ok"
    /\ unwrap(result.tx).initial_account_hash = None
    /\ is_some(unwrap(result.tx).account_details)
    /\ unwrap(result.tx).output_notes # << >>
    /\ DOMAIN unwrap(result.tx).output_note_details # {}
    /\ is_some(unwrap(result.tx).tx_script_root)

\* ------------------------------------------------------------------------
\* Properties of the note constructors
\* ------------------------------------------------------------------------

NoteCalled(ctors) == note_args # << >> /\ note_args.ctor \in ctors

\* the asset slice is one NoteAssets::new accepts
AcceptableAssets(assets) ==
    /\ 1 <= Len(assets)
    /\ Len(assets) <= 255
    /\ DuplicatedPositions(assets) = {}

StreamWord(k) == draw_word(k).word

\* C20: pay-to-id and pay-to-id-recallable draw one word, the note's serial number; swap
\* draws two: the first is the repay serial number, which is returned to the caller and
\* from which, with `sender`, the pay-to-id recipient in inputs[0..4] is built; the
\* second is the swap note's serial number.
C20_DrawOrder ==
    /\ NoteCalled({"p2id", "p2idr"}) =>
          /\ rng = note_args.rng + 1
          /\ note_out.tag = "Ok" =>
                unwrap(note_out.note).serial_num = StreamWord(note_args.rng)
    /\ NoteCalled({"swap"}) =>
          /\ rng = note_args.rng + 2
          /\ note_out.tag = "Ok"
          /\ note_out.returned = Some(StreamWord(note_args.rng))
          /\ unwrap(note_out.note).serial_num = StreamWord(note_args.rng + 1)
          /\ unwrap(note_out.note).serial_num # unwrap(note_out.returned)
          /\ LET rebuilt == digest_elements(
                     recipient_of("P2ID", <<note_args.sender.felt, 0, 0, 0>>,
                                  unwrap(note_out.returned)))
             IN  \A i \in 1..4 : unwrap(note_out.note).inputs[i] = rebuilt[i]

\* a swap note was made from a source that had been drawn from before
C20_Witness ==
    /\ NoteCalled({"swap"})
    /\ note_args.rng = 1
    /\ rng = 3
    /\ note_out.tag = "Ok"

\* ------------------------------------------------------------------------
\* The stored transaction id
\* ------------------------------------------------------------------------

\* the transactions in hand: the one build() returned and the one the decoder returned
TransactionsInHand ==
    (IF result.tag = "Ok" THEN {unwrap(result.tx)} ELSE {})
    \cup (IF decoded.tag = "Ok" THEN {unwrap(decoded.tx)} ELSE {})

\* the id's preimage: the initial hash or the zero word, the final hash and the two
\* note commitments, and nothing else of the transaction
IdPreimage(tx) ==
    <<unwrap_or_default(tx.initial_account_hash), tx.final_account_hash,
      hash_elements(tx.input_notes), hash_elements(tx.output_notes)>>

\* C21: the id stored in a ProvenTransaction, whether build() or the decoder made it, is
\* TransactionId::new of its own initial account hash, final account hash, input-notes
\* commitment and output-notes commitment; TransactionId::from(&tx) is tx.id(); and two
\* transactions in hand that agree on these four have the same id whatever their
\* account id, details, script root, block reference and proof.
C21_StoredId ==
    /\ \A tx \in TransactionsInHand :
          /\ tx.id = TransactionIdNew(tx.initial_account_hash, tx.final_account_hash,
                                      commitment(tx.input_notes), commitment(tx.output_notes))
          /\ tx.id = hash_elements(IdPreimage(tx))
          /\ FromProvenTransaction(tx) = tx.id
    /\ \A t1, t2 \in TransactionsInHand :
          (/\ t1.initial_account_hash = t2.initial_account_hash
           /\ t1.final_account_hash = t2.final_account_hash
           /\ t1.input_notes = t2.input_notes
           /\ t1.output_notes = t2.output_notes) => t1.id = t2.id

\* the decoder returned a transaction with input notes, output notes and account
\* details from bytes a peer sent
C21_Witness ==
    /\ result.tag = "None"
    /\ decoded.tag = "Ok"
    /\ unwrap(decoded.tx).input_notes # << >>
    /\ unwrap(decoded.tx).output_notes # << >>
    /\ is_some(unwrap(decoded.tx).account_details)
    /\ is_some(unwrap(decoded.tx).initial_account_hash)

\* ------------------------------------------------------------------------
\* The builder as an accumulator
\* ------------------------------------------------------------------------

BuilderFields ==
    {"account_id", "initial_account_hash", "final_account_hash", "account_details",
     "input_notes", "output_notes", "output_note_details", "tx_script_root",
     "block_ref", "proof"}

\* the fields of the builder a step changes
ChangedFields == {f \in BuilderFields : builder'[f] # builder[f]}

\* sequence `longer` is `shorter` followed by at least one more entry
Extends(longer, shorter) ==
    /\ Len(longer) > Len(shorter)
    /\ \A i \in 1..Len(shorter) : longer[i] = shorter[i]

\* mapping `after` is `before` with one key set and every other key as it was
OneKeySet(after, before) ==
    \E k \in DOMAIN after :
        /\ DOMAIN after = DOMAIN before \cup {k}
        /\ \A j \in DOMAIN before : j # k => after[j] = before[j]

\* a step that is one accumulating call on the builder
AccumulatingStep == pc = "building" /\ calls' # calls

\* what an accumulating call may do to the builder
AccumulatorEffect ==
    /\ pc' = "building"
    /\ result' = result
    /\ calls' = calls + 1
    /\ Cardinality(ChangedFields) <= 1
    /\ ChangedFields \subseteq {"account_details", "input_notes", "output_notes",
                                "output_note_details", "tx_script_root"}
    /\ "account_details" \in ChangedFields => is_some(builder'.account_details)
    /\ "tx_script_root" \in ChangedFields => is_some(builder'.tx_script_root)
    /\ "input_notes" \in ChangedFields => Extends(builder'.input_notes, builder.input_notes)
    /\ "output_notes" \in ChangedFields => Extends(builder'.output_notes, builder.output_notes)
    /\ "output_note_details" \in ChangedFields =>
          OneKeySet(builder'.output_note_details, builder.output_note_details)

\* the transaction build() returned carries what the builder had accumulated
BuiltFromAccumulated ==
    (result.tag = "Ok" /\ builder # << >>) =>
        LET tx == unwrap(result.tx)
        IN  /\ tx.account_id = builder.account_id
            /\ tx.initial_account_hash = builder.initial_account_hash
            /\ tx.final_account_hash = builder.final_account_hash
            /\ tx.account_details = builder.account_details
            /\ tx.input_notes = builder.input_notes
            /\ tx.output_notes = builder.output_notes
            /\ DOMAIN tx.output_note_details = DOMAIN builder.output_note_details
            /\ \A k \in DOMAIN builder.output_note_details :
                  tx.output_note_details[k] = builder.output_note_details[k]
            /\ tx.tx_script_root = builder.tx_script_root
            /\ tx.block_ref = builder.block_ref
            /\ tx.proof = builder.proof

C23_ConcurrentReaders ==
    /\ cell_writes <= 1
    /\ \A r \in Readers :
          /\ rd[r].pc # "panicked"
          /\ rd[r].pc = "done" => rd[r].ret = Some(SequentialHash(na_input))
    /\ \A r, q \in Readers :
          (rd[r].pc = "done" /\ rd[q].pc = "done") => rd[r].ret = rd[q].ret

====
